---- MODULE Spec2Model ----
(***************************************************************************)
(* Model of examples/python-client.py: the PersonasMCPClient class (its    *)
(* request-id counter, call_tool, get_personas, get_persona), the six      *)
(* example functions and main().                                           *)
(*                                                                         *)
(* The HTTP library is the environment.  What it hands back to the script  *)
(* is a Response: either the call itself raises a RequestException         *)
(* (net # "ok"), or it returns a response with a status code and a body.   *)
(* Response.raise_for_status() raises HTTPError exactly for the status     *)
(* codes 400..599; Response.json() decodes the body or raises.             *)
(*                                                                         *)
(* JSON / Python values are tagged records [t, v]:                         *)
(*   "obj" a mapping (v: a function on its keys), "arr" a list (v: a       *)
(*   sequence), "str" a string, "num" a number, "null" None.               *)
(***************************************************************************)
EXTENDS Integers, Sequences, FiniteSets, TLC

VARIABLES
    request_id,   \* PersonasMCPClient.request_id
    wire,         \* the requests handed to session.post / session.get, in order
    invoked,      \* how many times each client operation was invoked
    response,     \* the response the last HTTP request got
    outcome,      \* how the last client operation ended: a return or a raise
    health,       \* the response of main()'s liveness check ("none" before it)
    started,      \* the examples main() has started, in order, each with the
                  \* number of requests sent before it
    errors,       \* the examples whose except clause has printed an error, in order
    locals,       \* example_6_practical_workflow's local variables
    pc,           \* main()'s position ("client" when the client is driven directly)
    call          \* the last client operation invoked, with its arguments

vars == <<request_id, wire, invoked, response, outcome, health, started, errors, locals, pc, call>>

----------------------------------------------------------------------------
\* Bounds of the model

\* the number of client operations one behaviour of Spec invokes
MaxCalls == 3

----------------------------------------------------------------------------
\* Python / JSON values

JObj(f) == [t |-> "obj", v |-> f]
JArr(q) == [t |-> "arr", v |-> q]
JStr(s) == [t |-> "str", v |-> s]
JNum(n) == [t |-> "num", v |-> n]
JNull == [t |-> "null", v |-> "None"]
EmptyDict == JObj(<<>>)

\* how an operation ends
Return(value) == [kind |-> "return", value |-> value, type |-> "", prefix |-> "", msg |-> ""]
Raise(type, prefix, msg) == [kind |-> "raise", value |-> JNull, type |-> type, prefix |-> prefix, msg |-> msg]
NoOutcome == [kind |-> "none", value |-> JNull, type |-> "", prefix |-> "", msg |-> ""]
Raised(o) == o.kind = "raise"

\* Python `key in x`
Contains(x, key) ==
    CASE x.t = "obj" -> key \in DOMAIN x.v
      [] x.t = "arr" -> \E i \in DOMAIN x.v : x.v[i] = JStr(key)
      [] x.t = "str" -> x.v = key   \* a substring test; the model's strings are whole tokens
      [] OTHER -> FALSE

\* Python str(x), as an f-string formats it
PyStr(x) ==
    CASE x.t = "str" -> x.v
      [] x.t = "null" -> "None"
      [] OTHER -> "<repr>"

\* Python `not x`
Falsy(x) ==
    CASE x.t = "null" -> TRUE
      [] x.t = "arr" -> x.v = <<>>
      [] x.t = "obj" -> DOMAIN x.v = {}
      [] x.t = "str" -> x.v = ""
      [] OTHER -> x.v = 0

\* Python x[key] for a string key: a value or KeyError / TypeError
Subscript(x, key) ==
    IF x.t = "obj"
    THEN IF key \in DOMAIN x.v THEN Return(x.v[key]) ELSE Raise("KeyError", "", key)
    ELSE Raise("TypeError", "", "not subscriptable by a string")

\* Python x[0]; a string's first character, which no later x[0][key] accepts,
\* is modelled as the TypeError that follows
First(x) ==
    CASE x.t = "arr" -> IF x.v = <<>> THEN Raise("IndexError", "", "list index out of range")
                        ELSE Return(x.v[1])
      [] x.t = "obj" -> Raise("KeyError", "", "0")
      [] OTHER -> Raise("TypeError", "", "not subscriptable")

----------------------------------------------------------------------------
\* The HTTP library

\* a response body: bytes that decode to a JSON value, or bytes that do not.
\* For those Response.json() raises JSONDecodeError, which is a RequestException
\* in requests 2.27 and later and only a ValueError before
Text(value) == [json |-> TRUE, value |-> value, decode_error |-> ""]
Garbage == [json |-> FALSE, value |-> JNull, decode_error |-> "RequestException"]
GarbageOld == [json |-> FALSE, value |-> JNull, decode_error |-> "ValueError"]

NetFail == [net |-> "ConnectionError", status |-> 0, body |-> Garbage]
Http(status, body) == [net |-> "ok", status |-> status, body |-> body]
NoResponse == [net |-> "none", status |-> 0, body |-> Garbage]


----------------------------------------------------------------------------
\* PersonasMCPClient

mcp_url == <<"http://localhost:3000/mcp">>
api_url == <<"http://localhost:3000/api">>
health_url == <<"http://localhost:3000/health">>

\* session.post(url, json=..., headers=...) and session.get(url), as they go out
Post(url, json) ==
    [verb |-> "POST", url |-> url, json |-> json,
     headers |-> [name |-> "Content-Type", value |-> "application/json"]]
Get(url) == [verb |-> "GET", url |-> url]

get_request_id_frozen(rid) == rid

\* _get_request_id: the counter after the call, which is also the id returned
get_request_id(rid) == rid + 1

Envelope_no_arguments(tool_name, arguments, id) ==
    [jsonrpc |-> "2.0", method |-> "tools/call",
     params |-> [name |-> tool_name, arguments |-> EmptyDict], id |-> id]

\* the request dict call_tool builds
Envelope(tool_name, arguments, id) ==
    [jsonrpc |-> "2.0", method |-> "tools/call",
     params |-> [name |-> tool_name, arguments |-> arguments], id |-> id]

raise_for_status_5xx_only(status) == 500 <= status /\ status < 600

\* response.raise_for_status(), as the three operations and main() call it:
\* the library raises HTTPError for a 4xx or 5xx status and for no other
raise_for_status(status) == 400 <= status /\ status < 600

\* response.json(): the decoded body, or JSONDecodeError
json(resp) ==
    IF resp.body.json THEN Return(resp.body.value)
    ELSE Raise("JSONDecodeError", "", resp.body.decode_error)

\* result['error'].get('message', 'Unknown error'), then the raise of line 53
mcp_error(error) ==
    IF error.t = "obj"
    THEN Raise("Exception", "MCP Error: ",
               IF "message" \in DOMAIN error.v THEN PyStr(error.v["message"])
               ELSE "Unknown error")
    ELSE Raise("AttributeError", "", "object has no attribute 'get'")

result_or_default_KeyError(result) ==
    IF result.t = "obj"
    THEN IF "result" \in DOMAIN result.v THEN Return(result.v["result"])
         ELSE Raise("KeyError", "", "result")
    ELSE Raise("AttributeError", "", "object has no attribute 'get'")

\* result.get("result", {})
result_or_default(result) ==
    IF result.t = "obj"
    THEN IF "result" \in DOMAIN result.v THEN Return(result.v["result"])
         ELSE Return(EmptyDict)
    ELSE Raise("AttributeError", "", "object has no attribute 'get'")

\* the body of call_tool's try block and its except clause, given the response
\* the POST got: how call_tool ends
call_tool_outcome(resp) ==
    IF resp.net # "ok"
    THEN Raise("Exception", "Request failed: ", resp.net)
    ELSE IF raise_for_status(resp.status)
    THEN Raise("Exception", "Request failed: ", "HTTPError")
    ELSE IF Raised(json(resp))
    THEN IF json(resp).msg = "RequestException"
         THEN Raise("Exception", "Request failed: ", "JSONDecodeError")
         ELSE json(resp)
    ELSE LET result == json(resp).value
         IN  IF result.t \notin {"obj", "arr", "str"}
             THEN Raise("TypeError", "", "argument is not iterable")
             ELSE IF Contains(result, "error")
             THEN IF result.t = "obj" THEN mcp_error(result.v["error"])
                  ELSE Raise("TypeError", "", "indices must be integers")
             ELSE result_or_default(result)

call_tool_retry(rid, tool_name, arguments, resp) ==
    LET id == get_request_id(rid)
        request == Post(mcp_url, Envelope(tool_name, arguments, id))
    IN  [request_id |-> id,
         sent |-> IF Raised(call_tool_outcome(resp)) THEN <<request, request>>
                  ELSE <<request>>,
         outcome |-> call_tool_outcome(resp)]

\* call_tool(tool_name, arguments) on a client whose counter is rid, when the
\* POST gets resp: the counter after, the requests sent, and how it ends
call_tool(rid, tool_name, arguments, resp) ==
    LET id == get_request_id(rid)
        request == Envelope(tool_name, arguments, id)
    IN  [request_id |-> id,
         sent |-> <<Post(mcp_url, request)>>,
         outcome |-> call_tool_outcome(resp)]

\* the two statements after session.get in get_personas and get_persona
get_outcome(resp) ==
    IF resp.net # "ok" THEN Raise(resp.net, "", "connection failed")
    ELSE IF raise_for_status(resp.status) THEN Raise("HTTPError", "", "status")
    ELSE json(resp)

get_personas_first_only(rid, resp) ==
    [request_id |-> rid,
     sent |-> <<Get(api_url \o <<"personas">>)>>,
     outcome |-> IF get_outcome(resp).kind = "return" /\ get_outcome(resp).value.t = "arr"
                    /\ Len(get_outcome(resp).value.v) > 1
                 THEN Return(JArr(<<get_outcome(resp).value.v[1]>>))
                 ELSE get_outcome(resp)]

get_personas(rid, resp) ==
    [request_id |-> rid,
     sent |-> <<Get(api_url \o <<"personas">>)>>,
     outcome |-> get_outcome(resp)]

get_persona(rid, persona_id, resp) ==
    [request_id |-> rid,
     sent |-> <<Get(api_url \o <<"personas", persona_id>>)>>,
     outcome |-> get_outcome(resp)]

----------------------------------------------------------------------------
\* What a server can answer

Persona1 ==
    JObj([id |-> JStr("architect"), name |-> JStr("Architect"),
          role |-> JStr("architect"), description |-> JStr("designs systems")])
Persona2 ==
    JObj([id |-> JStr("security-analyst"), name |-> JStr("Security Analyst"),
          role |-> JStr("analyst"), description |-> JStr("finds weaknesses"),
          expertise |-> JArr(<<JStr("threat modelling")>>)])

ErrorValues == {JObj([message |-> JStr("boom")]), EmptyDict, JStr("boom"), JNull}
ResultValues == {JObj([data |-> JObj([score |-> JNum(90)])])}

ResponseObjects ==
    {EmptyDict}
      \cup {JObj([result |-> r]) : r \in ResultValues}
      \cup {JObj([error |-> e]) : e \in ErrorValues}
      \cup {JObj([error |-> e, result |-> r]) : e \in ErrorValues, r \in ResultValues}

Bodies ==
    {Text(v) : v \in ResponseObjects \cup
                     {JArr(<<Persona1, Persona2>>), Persona2, JNull}}
      \cup {Garbage, GarbageOld}

\* The statuses a response can carry.  300 stands for the 3xx answers the
\* library hands to the caller instead of following (300, 304, any 3xx
\* without a Location header).
Statuses == {200, 300, 404, 500}

Responses == {NetFail} \cup {Http(s, b) : s \in Statuses, b \in Bodies}

----------------------------------------------------------------------------
\* The client driven directly: any sequence of at most MaxCalls operations on
\* one PersonasMCPClient, each answered in any way

ToolNames == {"recommend-persona", "get-recommendation-stats"}
Arguments == {EmptyDict, JObj([title |-> JStr("Fix a bug"), complexity |-> JStr("simple")])}
PersonaIds == {"security-analyst"}

NoLocals == [recommendations |-> JNull, best_persona |-> JNull, explain_result |-> JNull]
NoCall == [op |-> "none", name |-> "", arguments |-> JNull]
Invocations == invoked.call_tool + invoked.get_personas + invoked.get_persona

\* PersonasMCPClient.__init__
ClientInit ==
    /\ request_id = 0
    /\ wire = <<>>
    /\ invoked = [call_tool |-> 0, get_personas |-> 0, get_persona |-> 0]
    /\ response = NoResponse
    /\ outcome = NoOutcome
    /\ call = NoCall

Init ==
    /\ ClientInit
    /\ health = NoResponse
    /\ started = <<>>
    /\ errors = <<>>
    /\ locals = NoLocals
    /\ pc = "client"

\* what every client operation does to the state, given its result record
Apply(op, name, arguments, resp, r) ==
    /\ request_id' = r.request_id
    /\ wire' = wire \o r.sent
    /\ invoked' = [invoked EXCEPT ![op] = @ + 1]
    /\ response' = resp
    /\ outcome' = r.outcome
    /\ call' = [op |-> op, name |-> name, arguments |-> arguments]

CallTool ==
    /\ pc = "client"
    /\ Invocations < MaxCalls
    /\ \E tool_name \in ToolNames, arguments \in Arguments, resp \in Responses :
          Apply("call_tool", tool_name, arguments, resp,
                call_tool(request_id, tool_name, arguments, resp))
    /\ UNCHANGED <<health, started, errors, locals, pc>>

GetPersonas ==
    /\ pc = "client"
    /\ Invocations < MaxCalls
    /\ \E resp \in Responses :
          Apply("get_personas", "", JNull, resp, get_personas(request_id, resp))
    /\ UNCHANGED <<health, started, errors, locals, pc>>

GetPersona ==
    /\ pc = "client"
    /\ Invocations < MaxCalls
    /\ \E persona_id \in PersonaIds, resp \in Responses :
          Apply("get_persona", persona_id, JNull, resp,
                get_persona(request_id, persona_id, resp))
    /\ UNCHANGED <<health, started, errors, locals, pc>>

Next == CallTool \/ GetPersonas \/ GetPersona

Spec == Init /\ [][Next]_vars

----------------------------------------------------------------------------
\* The example functions: the argument dicts they build

Keywords(q) == JArr([i \in DOMAIN q |-> JStr(q[i])])

\* Python {**a, **b}: the keys of both, b's value where both have the key
DictMerge(a, b) ==
    JObj([k \in DOMAIN a.v \cup DOMAIN b.v |-> IF k \in DOMAIN b.v THEN b.v[k] ELSE a.v[k]])

task ==
    JObj([title |-> JStr("Implement real-time chat system"),
          description |-> JStr("Build a scalable real-time chat system"),
          keywords |-> Keywords(<<"websocket", "real-time", "chat", "scalability">>),
          complexity |-> JStr("complex"),
          domain |-> JStr("backend")])

request ==
    JObj([personaId |-> JStr("architect"),
          title |-> JStr("Microservices migration"),
          description |-> JStr("Migrate monolithic application to microservices architecture"),
          keywords |-> Keywords(<<"microservices", "migration", "architecture", "refactoring">>),
          complexity |-> JStr("expert"),
          domain |-> JStr("backend")])

comparison ==
    JObj([personaIds |-> Keywords(<<"developer", "optimizer", "performance-analyst">>),
          title |-> JStr("Optimize API response times"),
          description |-> JStr("Our REST API has slow response times"),
          keywords |-> Keywords(<<"performance", "optimization", "api", "latency">>),
          complexity |-> JStr("complex")])

problem ==
    JObj([title |-> JStr("Database performance issues"),
          description |-> JStr("Production database experiencing slow queries"),
          keywords |-> Keywords(<<"database", "performance", "sql", "optimization", "production">>),
          complexity |-> JStr("complex"),
          urgency |-> JStr("high")])

alternative_personas == Keywords(<<"optimizer", "database-admin", "debugger">>)

explain_arguments(best_persona) ==
    DictMerge(JObj([personaId |-> best_persona.v["personaId"]]), problem)

compare_arguments == DictMerge(JObj([personaIds |-> alternative_personas]), problem)

----------------------------------------------------------------------------
\* The example functions: what they do with a result

Ok == Return(JNull)

\* x[k] for every k of keys, in turn: the first failure, or Ok
RequireKeys(x, keys) ==
    IF x.t # "obj" THEN Raise("TypeError", "", "not subscriptable by a string")
    ELSE IF keys \subseteq DOMAIN x.v THEN Ok
    ELSE Raise("KeyError", "", "missing key")

\* `for item in x: item[k] ...` for every k of keys
ForEachRequire(x, keys) ==
    CASE x.t = "arr" ->
            IF \A i \in DOMAIN x.v : ~Raised(RequireKeys(x.v[i], keys)) THEN Ok
            ELSE LET i == CHOOSE j \in DOMAIN x.v :
                              /\ Raised(RequireKeys(x.v[j], keys))
                              /\ \A h \in 1..(j - 1) : ~Raised(RequireKeys(x.v[h], keys))
                 IN  RequireKeys(x.v[i], keys)
      [] x.t = "obj" -> IF DOMAIN x.v = {} THEN Ok
                        ELSE Raise("TypeError", "", "string indices must be integers")
      [] x.t = "str" -> IF x.v = "" THEN Ok
                        ELSE Raise("TypeError", "", "string indices must be integers")
      [] OTHER -> Raise("TypeError", "", "object is not iterable")

\* a[k1][k2]
Path2(a, k1, k2) ==
    IF Raised(Subscript(a, k1)) THEN Subscript(a, k1)
    ELSE Subscript(Subscript(a, k1).value, k2)

\* example_1_get_recommendations, lines 88-101, given what call_tool returned
display_recommendations(result) ==
    IF Raised(Path2(result, "data", "recommendations"))
    THEN Path2(result, "data", "recommendations")
    ELSE ForEachRequire(Path2(result, "data", "recommendations").value,
                        {"personaId", "score", "reasoning", "strengths", "confidence"})

\* example_2_explain_persona_fit, lines 122-137
display_fit(result) ==
    IF Raised(Subscript(result, "data")) THEN Subscript(result, "data")
    ELSE LET data == Subscript(result, "data").value
         IN  IF Raised(Path2(data, "persona", "name")) THEN Path2(data, "persona", "name")
             ELSE RequireKeys(data, {"score", "confidence", "reasoning", "strengths"})

\* example_3_compare_personas, lines 158-170
display_comparisons(result) ==
    IF Raised(Path2(result, "data", "comparisons"))
    THEN Path2(result, "data", "comparisons")
    ELSE ForEachRequire(Path2(result, "data", "comparisons").value,
                        {"personaId", "score", "reasoning", "strengths", "confidence"})

\* example_5_system_stats, lines 221-235
display_stats(result) ==
    IF Raised(Subscript(result, "data")) THEN Subscript(result, "data")
    ELSE LET stats == Subscript(result, "data").value
         IN  IF Raised(RequireKeys(stats, {"totalPersonas", "availableRoles", "scoringWeights"}))
             THEN RequireKeys(stats, {"totalPersonas", "availableRoles", "scoringWeights"})
             ELSE IF Raised(Path2(stats, "systemInfo", "version"))
             THEN Path2(stats, "systemInfo", "version")
             ELSE RequireKeys(stats.v["systemInfo"], {"features"})

\* example_4_use_rest_api, lines 184-197: len(personas), persona.get('role'),
\* p['id'], p['name']
display_personas(personas) ==
    CASE personas.t = "arr" ->
            IF \E i \in DOMAIN personas.v : personas.v[i].t # "obj"
            THEN Raise("AttributeError", "", "object has no attribute 'get'")
            ELSE ForEachRequire(personas, {"id", "name"})
      [] personas.t = "obj" ->
            IF DOMAIN personas.v = {} THEN Ok
            ELSE Raise("AttributeError", "", "'str' object has no attribute 'get'")
      [] personas.t = "str" ->
            IF personas.v = "" THEN Ok
            ELSE Raise("AttributeError", "", "'str' object has no attribute 'get'")
      [] OTHER -> Raise("TypeError", "", "object has no len()")

\* example_4_use_rest_api, lines 203-209
display_persona(security) == RequireKeys(security, {"name", "role", "description"})

\* example_6_practical_workflow, lines 262-270, given what the first call_tool
\* returned: the locals it sets, and whether it goes on ("continue"), returns
\* early ("return") or lands in the except clause ("except")
workflow_after_recommend(result) ==
    LET recs == Path2(result, "data", "recommendations")
        miss(o) == [go |-> "except", recommendations |-> JNull, best_persona |-> JNull,
                    outcome |-> o]
    IN  IF Raised(recs) THEN miss(recs)
        ELSE IF Falsy(recs.value)
        THEN [go |-> "return", recommendations |-> recs.value, best_persona |-> JNull,
              outcome |-> Ok]
        ELSE IF Raised(First(recs.value))
        THEN [miss(First(recs.value)) EXCEPT !.recommendations = recs.value]
        ELSE IF Raised(RequireKeys(First(recs.value).value, {"personaId", "score"}))
        THEN [go |-> "except", recommendations |-> recs.value,
              best_persona |-> First(recs.value).value,
              outcome |-> RequireKeys(First(recs.value).value, {"personaId", "score"})]
        ELSE [go |-> "continue", recommendations |-> recs.value,
              best_persona |-> First(recs.value).value, outcome |-> Ok]

\* example_6_practical_workflow, lines 279-280, given what the second call_tool
\* returned
workflow_after_explain(explain_result) ==
    IF Raised(Path2(explain_result, "data", "reasoning"))
    THEN Path2(explain_result, "data", "reasoning")
    ELSE Ok

\* example_6_practical_workflow, lines 291-299
workflow_after_compare(compare_result) ==
    IF Raised(Path2(compare_result, "data", "comparisons"))
    THEN Path2(compare_result, "data", "comparisons")
    ELSE ForEachRequire(Path2(compare_result, "data", "comparisons").value,
                        {"score", "personaId", "reasoning"})

----------------------------------------------------------------------------
\* main(): the liveness check, then the six examples in turn

Recommendation(persona, score) ==
    JObj([personaId |-> JStr(persona), score |-> JNum(score), reasoning |-> JStr("why"),
          strengths |-> JArr(<<JStr("depth")>>), confidence |-> JNum(80)])
Recommendations(q) == JObj([data |-> JObj([recommendations |-> JArr(q)])])

MainResults ==
    {Recommendations(<<Recommendation("optimizer", 90), Recommendation("debugger", 70)>>),
     Recommendations(<<Recommendation("debugger", 85)>>),
     Recommendations(<<JObj([personaId |-> JStr("optimizer")])>>),
     Recommendations(<<>>),
     JObj([data |-> JObj([persona |-> Persona1, score |-> JNum(90), confidence |-> JNum(80),
                          reasoning |-> JStr("why"), strengths |-> JArr(<<>>)])]),
     JObj([data |-> JObj([comparisons |-> JArr(<<Recommendation("optimizer", 90)>>)])]),
     JObj([data |-> JObj([totalPersonas |-> JNum(2), availableRoles |-> JArr(<<>>),
                          scoringWeights |-> EmptyDict,
                          systemInfo |-> JObj([version |-> JStr("1"),
                                               features |-> JArr(<<>>)])])]),
     JNull}

MainResponses ==
    {NetFail, Http(500, Garbage), Http(300, Text(EmptyDict)), Http(200, GarbageOld),
     Http(200, Text(JObj([error |-> JObj([message |-> JStr("boom")])]))),
     Http(200, Text(EmptyDict)),
     Http(200, Text(JArr(<<Persona1, Persona2>>))),
     Http(200, Text(Persona2))}
      \cup {Http(200, Text(JObj([result |-> r]))) : r \in MainResults}

HealthResponses == {NetFail} \cup {Http(s, Text(EmptyDict)) : s \in Statuses}

MainInit ==
    /\ ClientInit
    /\ health = NoResponse
    /\ started = <<>>
    /\ errors = <<>>
    /\ locals = NoLocals
    /\ pc = "health"

connection_ok_any_status(resp) == resp.net = "ok"

\* lines 315-322: the try block around session.get(health).raise_for_status()
\* falls through; a RequestException leads to sys.exit(1)
connection_ok(resp) == resp.net = "ok" /\ ~raise_for_status(resp.status)

ExceptionClasses ==
    {"Exception", "ValueError", "JSONDecodeError", "TypeError", "AttributeError",
     "KeyError", "IndexError", "HTTPError", "ConnectionError"}

except_Exception_plain_only(o) == o.type = "Exception"

\* `except Exception as e:` of the example functions: what it catches
except_Exception(o) == o.type \in ExceptionClasses

workflow_goes_on_always(o) == TRUE

\* the try block of example_6_practical_workflow goes on to its next statement
\* only when the one before did not raise
workflow_goes_on(o) == ~Raised(o)

\* the end of an example's try statement: nothing raised, or the except clause
\* prints the error, and main() goes on to `next`; what the clause does not
\* catch leaves main()'s try block through its own except clause
Finish(k, body, next) ==
    IF ~Raised(body) THEN errors' = errors /\ pc' = next
    ELSE IF except_Exception(body) THEN errors' = Append(errors, k) /\ pc' = next
    ELSE errors' = errors /\ pc' = "aborted"

Start(k) == started' = Append(started, [example |-> k, at |-> Len(wire)])

TestConnection ==
    /\ pc = "health"
    /\ \E resp \in HealthResponses :
          /\ wire' = Append(wire, Get(health_url))
          /\ health' = resp
          /\ response' = resp
          /\ pc' = IF connection_ok(resp) THEN "example_1" ELSE "exit"
    /\ UNCHANGED <<request_id, invoked, outcome, started, errors, locals, call>>

\* what example k (1, 2, 3 or 5) does with the result of its call_tool
display(k, result) ==
    CASE k = 1 -> display_recommendations(result)
      [] k = 2 -> display_fit(result)
      [] k = 3 -> display_comparisons(result)
      [] k = 5 -> display_stats(result)

\* an example of one call_tool: examples 1, 2, 3 and 5
ToolExample(k, next, tool_name, arguments) ==
    \E resp \in MainResponses :
        LET r == call_tool(request_id, tool_name, arguments, resp)
        IN  /\ Apply("call_tool", tool_name, arguments, resp, r)
            /\ Start(k)
            /\ Finish(k, IF Raised(r.outcome) THEN r.outcome ELSE display(k, r.outcome.value),
                      next)
            /\ UNCHANGED <<health, locals>>

Example1 ==
    /\ pc = "example_1"
    /\ ToolExample(1, "example_2", "recommend-persona", task)

Example2 ==
    /\ pc = "example_2"
    /\ ToolExample(2, "example_3", "explain-persona-fit", request)

Example3 ==
    /\ pc = "example_3"
    /\ ToolExample(3, "example_4", "compare-personas", comparison)

Example4List ==
    /\ pc = "example_4"
    /\ \E resp \in MainResponses :
          LET r == get_personas(request_id, resp)
              body == IF Raised(r.outcome) THEN r.outcome
                      ELSE display_personas(r.outcome.value)
          IN  /\ Apply("get_personas", "", JNull, resp, r)
              /\ Start(4)
              /\ IF Raised(body) THEN Finish(4, body, "example_5")
                 ELSE errors' = errors /\ pc' = "example_4_persona"
    /\ UNCHANGED <<health, locals>>

Example4Persona ==
    /\ pc = "example_4_persona"
    /\ \E resp \in MainResponses :
          LET r == get_persona(request_id, "security-analyst", resp)
          IN  /\ Apply("get_persona", "security-analyst", JNull, resp, r)
              /\ Finish(4, IF Raised(r.outcome) THEN r.outcome
                           ELSE display_persona(r.outcome.value), "example_5")
    /\ UNCHANGED <<health, started, locals>>

Example5 ==
    /\ pc = "example_5"
    /\ ToolExample(5, "example_6", "get-recommendation-stats", EmptyDict)

Example6Recommend ==
    /\ pc = "example_6"
    /\ \E resp \in MainResponses :
          LET r == call_tool(request_id, "recommend-persona", problem, resp)
              w == workflow_after_recommend(r.outcome.value)
          IN  /\ Apply("call_tool", "recommend-persona", problem, resp, r)
              /\ Start(6)
              /\ IF ~workflow_goes_on(r.outcome)
                 THEN Finish(6, r.outcome, "done") /\ locals' = locals
                 ELSE /\ locals' = [locals EXCEPT !.recommendations = w.recommendations,
                                                  !.best_persona = w.best_persona]
                      /\ IF w.go = "continue"
                         THEN errors' = errors /\ pc' = "example_6_explain"
                         ELSE Finish(6, w.outcome, "done")
    /\ UNCHANGED health

Example6Explain ==
    /\ pc = "example_6_explain"
    /\ \E resp \in MainResponses :
          LET arguments == explain_arguments(locals.best_persona)
              r == call_tool(request_id, "explain-persona-fit", arguments, resp)
          IN  /\ Apply("call_tool", "explain-persona-fit", arguments, resp, r)
              /\ IF ~workflow_goes_on(r.outcome)
                 THEN Finish(6, r.outcome, "done") /\ locals' = locals
                 ELSE /\ locals' = [locals EXCEPT !.explain_result = r.outcome.value]
                      /\ IF workflow_goes_on(workflow_after_explain(r.outcome.value))
                         THEN errors' = errors /\ pc' = "example_6_compare"
                         ELSE Finish(6, workflow_after_explain(r.outcome.value), "done")
    /\ UNCHANGED <<health, started>>

Example6Compare ==
    /\ pc = "example_6_compare"
    /\ \E resp \in MainResponses :
          LET r == call_tool(request_id, "compare-personas", compare_arguments, resp)
          IN  /\ Apply("call_tool", "compare-personas", compare_arguments, resp, r)
              /\ Finish(6, IF Raised(r.outcome) THEN r.outcome
                           ELSE workflow_after_compare(r.outcome.value), "done")
    /\ UNCHANGED <<health, started, locals>>

MainNext ==
    \/ TestConnection
    \/ Example1 \/ Example2 \/ Example3
    \/ Example4List \/ Example4Persona
    \/ Example5
    \/ Example6Recommend \/ Example6Explain \/ Example6Compare

\* The script is one sequential thread: as long as each HTTP exchange ends
\* (with a response or with an exception), main() takes its next step.
MainSpec == MainInit /\ [][MainNext]_vars /\ WF_vars(MainNext)

----------------------------------------------------------------------------
\* The two failure kinds, as the script raises them.  call_tool raises a plain
\* Exception whose text starts "Request failed: " (transport) or "MCP Error: "
\* (remote); get_personas and get_persona let the library's exception through.

IsTransportError(o) ==
    /\ Raised(o)
    /\ \/ o.type = "Exception" /\ o.prefix = "Request failed: "
       \/ o.type \in {"HTTPError", "ConnectionError"}

IsRemoteError(o) == Raised(o) /\ o.type = "Exception" /\ o.prefix = "MCP Error: "

Posts == SelectSeq(wire, LAMBDA r : r.verb = "POST")
Gets == SelectSeq(wire, LAMBDA r : r.verb = "GET")
LastRequest == wire[Len(wire)]
SuccessStatus == response.net = "ok" /\ 200 <= response.status /\ response.status < 300
Decoded == response.body.value
GotObject == SuccessStatus /\ response.body.json /\ Decoded.t = "obj"

----------------------------------------------------------------------------
\* Claims about the client (checked under Spec)

\* C1: the envelope of the k-th call_tool invocation carries id = k, and the
\* counter has been incremented exactly once per call_tool invocation, whatever
\* the outcomes and whatever get_personas / get_persona calls lie in between.
C1_RequestIdsCountCalls ==
    /\ \A k \in 1..Len(Posts) : Posts[k].json.id = k
    /\ Len(Posts) = invoked.call_tool
    /\ request_id = invoked.call_tool

C1_Witness ==
    /\ Len(wire) = 3
    /\ wire[1].verb = "POST" /\ wire[2].verb = "GET" /\ wire[3].verb = "POST"
    /\ IsTransportError(outcome)
    /\ wire[3].json.id = 2

\* C2: a success-status response whose body has an "error" field makes
\* call_tool fail with a RemoteError carrying the error's message ("Unknown
\* error" when it has none), never return, also when "result" is there too.
C2_ErrorFieldIsRemoteError ==
    (call.op = "call_tool" /\ GotObject /\ "error" \in DOMAIN Decoded.v) =>
        /\ IsRemoteError(outcome)
        /\ outcome.msg = (IF Decoded.v["error"].t = "obj"
                             /\ "message" \in DOMAIN Decoded.v["error"].v
                          THEN PyStr(Decoded.v["error"].v["message"])
                          ELSE "Unknown error")

\* C3 as stated: any non-success (non-2xx) status makes each of the three
\* operations fail with a TransportError, whatever the body.
C3_NonSuccessIsTransportError ==
    (call.op # "none" /\ response.net = "ok" /\ ~SuccessStatus) => IsTransportError(outcome)

\* C3 amended: a 4xx or 5xx status makes each of the three operations fail with
\* a TransportError: never a RemoteError, never a return, whatever the body.
C3_ErrorStatusIsTransportError ==
    (call.op # "none" /\ response.net = "ok"
       /\ 400 <= response.status /\ response.status < 600) =>
        /\ IsTransportError(outcome)
        /\ ~IsRemoteError(outcome)
        /\ outcome.kind # "return"

C3_Witness ==
    /\ call.op = "call_tool"
    /\ response.status = 500
    /\ response.body.json /\ Decoded.t = "obj" /\ DOMAIN Decoded.v = {"error", "result"}
    /\ IsTransportError(outcome)

\* C6: every invocation of a client operation hands exactly one request to the
\* HTTP session, whatever its outcome: the POSTs are as many as the call_tool
\* invocations and as the request-id counter, the GETs as many as the
\* get_personas and get_persona invocations.
C6_OneRequestPerInvocation ==
    /\ Len(Posts) = invoked.call_tool
    /\ Len(Posts) = request_id
    /\ Len(Gets) = invoked.get_personas + invoked.get_persona
    /\ Len(wire) = Invocations

C6_Witness ==
    /\ invoked.call_tool = 2 /\ invoked.get_persona = 1
    /\ call.op = "call_tool" /\ Raised(outcome)
    /\ Len(wire) = 3

\* C7: on a success-status response whose body is an object without "error",
\* call_tool returns the "result" field's value, and an empty mapping when
\* there is no "result" field.
C7_ResultOrEmptyMapping ==
    (call.op = "call_tool" /\ GotObject /\ "error" \notin DOMAIN Decoded.v) =>
        outcome = Return(IF "result" \in DOMAIN Decoded.v THEN Decoded.v["result"]
                         ELSE EmptyDict)

C7_Witness ==
    /\ call.op = "call_tool" /\ GotObject
    /\ DOMAIN Decoded.v \cap {"error", "result"} = {}
    /\ outcome = Return(EmptyDict)

\* C8: the request call_tool(name, arguments) posts goes to the tool endpoint
\* and is the envelope {jsonrpc, method: "tools/call", params: {name,
\* arguments}, id} with the given name and the given arguments, unchanged.
C8_EnvelopeForwardsArguments ==
    call.op = "call_tool" =>
        /\ LastRequest.verb = "POST"
        /\ LastRequest.url = mcp_url
        /\ DOMAIN LastRequest.json = {"jsonrpc", "method", "params", "id"}
        /\ LastRequest.json.jsonrpc = "2.0"
        /\ LastRequest.json.method = "tools/call"
        /\ DOMAIN LastRequest.json.params = {"name", "arguments"}
        /\ LastRequest.json.params.name = call.name
        /\ LastRequest.json.params.arguments = call.arguments
        /\ LastRequest.json.id = request_id

C8_Witness ==
    /\ call.op = "call_tool"
    /\ call.name = "get-recommendation-stats"
    /\ call.arguments # EmptyDict
    /\ LastRequest.json.params.arguments = call.arguments

\* C9: on a success status get_personas and get_persona return the decoded
\* body as it is: a list with the same records in the same order, a mapping
\* with the same fields.
C9_GetReturnsBodyVerbatim ==
    (call.op \in {"get_personas", "get_persona"} /\ SuccessStatus /\ response.body.json) =>
        /\ outcome.kind = "return"
        /\ outcome.value = Decoded
        /\ Decoded.t = "arr" =>
              /\ Len(outcome.value.v) = Len(Decoded.v)
              /\ \A i \in 1..Len(Decoded.v) : outcome.value.v[i] = Decoded.v[i]

C9_Witness ==
    /\ call.op = "get_personas"
    /\ SuccessStatus
    /\ Decoded = JArr(<<Persona1, Persona2>>)
    /\ outcome.kind = "return"
    /\ Len(outcome.value.v) = 2
    /\ outcome.value.v[1] = Persona1 /\ outcome.value.v[2] = Persona2

----------------------------------------------------------------------------
\* Claims about main() (checked under MainSpec)

HealthChecked == health.net # "none"
Examples == [i \in DOMAIN started |-> started[i].example]
IsPrefix(p, q) == Len(p) <= Len(q) /\ \A i \in 1..Len(p) : p[i] = q[i]
Halted ==
    /\ pc = "exit"
    /\ Posts = <<>>
    /\ wire = <<Get(health_url)>>
    /\ started = <<>>
    /\ invoked = [call_tool |-> 0, get_personas |-> 0, get_persona |-> 0]
    /\ request_id = 0

\* C4 as stated: a liveness check that fails by a non-2xx status or by a
\* network-level failure halts the run before any tool invocation or REST call:
\* no POST, no example started, the request-id counter still 0.
C4_NonSuccessHealthHalts ==
    (HealthChecked
       /\ (health.net # "ok" \/ ~(200 <= health.status /\ health.status < 300))) => Halted

\* C4 amended: a liveness check that fails by a 4xx or 5xx status or by a
\* network-level failure halts the run before any tool invocation or REST call:
\* no POST, no example started, the request-id counter still 0.
C4_FailedHealthHalts ==
    (HealthChecked
       /\ (health.net # "ok" \/ (400 <= health.status /\ health.status < 600))) => Halted

C4_Witness == HealthChecked /\ health.net = "ok" /\ health.status = 404 /\ pc = "exit"

\* C5: once the liveness check has passed, the examples are started in the
\* order 1 to 6 and, whichever client calls fail, the run reaches its end with
\* all six started; each failure is caught by the example it happens in.
C5_FailuresAreNotFatal ==
    /\ [](/\ IsPrefix(Examples, <<1, 2, 3, 4, 5, 6>>)
          /\ \A i \in DOMAIN errors : \E j \in DOMAIN Examples : Examples[j] = errors[i]
          /\ pc # "aborted")
    /\ [](pc \notin {"health", "exit"} => <>(pc = "done" /\ Examples = <<1, 2, 3, 4, 5, 6>>))

C5_Witness ==
    /\ pc = "done"
    /\ Examples = <<1, 2, 3, 4, 5, 6>>
    /\ errors = <<1, 2, 3, 4, 5, 6>>
    /\ IsTransportError(outcome)

\* what example 6 has sent so far: the tool names of its POSTs, in order
WorkflowRequests == SubSeq(wire, started[Len(started)].at + 1, Len(wire))
WorkflowTools == [i \in DOMAIN WorkflowRequests |-> WorkflowRequests[i].json.params.name]
InWorkflow == Len(started) > 0 /\ started[Len(started)].example = 6

\* C10: what example 6 sends is a prefix of recommend-persona,
\* explain-persona-fit, compare-personas; explain-persona-fit goes out only
\* after recommend-persona returned a non-empty recommendation list, and names
\* its first element's personaId; compare-personas goes out only after
\* explain-persona-fit succeeded; after a failure or an empty list the
\* workflow is over.
C10_WorkflowIsPrefix ==
    InWorkflow =>
        /\ \A i \in DOMAIN WorkflowRequests : WorkflowRequests[i].verb = "POST"
        /\ IsPrefix(WorkflowTools,
                    <<"recommend-persona", "explain-persona-fit", "compare-personas">>)
        /\ Len(WorkflowTools) >= 1
        /\ Len(WorkflowTools) >= 2 =>
              /\ locals.recommendations.t = "arr"
              /\ Len(locals.recommendations.v) >= 1
              /\ WorkflowRequests[2].json.params.arguments.v["personaId"]
                    = locals.recommendations.v[1].v["personaId"]
        /\ Len(WorkflowTools) = 3 =>
              /\ locals.explain_result.t = "obj"
              /\ ~Raised(workflow_after_explain(locals.explain_result))
        /\ (Raised(outcome) \/ Falsy(locals.recommendations)) => pc = "done"
        /\ (pc = "done" /\ Falsy(locals.recommendations)) => Len(WorkflowTools) = 1

C10_Witness ==
    /\ InWorkflow
    /\ pc = "done"
    /\ Len(WorkflowTools) = 3
    /\ Len(locals.recommendations.v) = 2
    /\ WorkflowRequests[2].json.params.arguments.v["personaId"] = JStr("optimizer")

====
